---- MODULE Spec2Model ----
(***************************************************************************)
(* muduo::Buffer (src/buffer/muduo_buffer.h): one growable byte buffer     *)
(* with a prependable, a readable and a writable zone delimited by two     *)
(* cursors.                                                                *)
(*                                                                         *)
(*   0 <= readerIndex_ <= writerIndex_ <= buffer_.size()                   *)
(*                                                                         *)
(* A buffer value is a record [buffer_, readerIndex_, writerIndex_,        *)
(* aborted]: the three data members of the class plus the flag "an         *)
(* assert() of the class has failed" (asserts are compiled in: the header  *)
(* includes <assert.h> and no NDEBUG is defined in it).  The member        *)
(* functions are operators from buffer values to buffer values, composed   *)
(* exactly as the code composes its calls.  Offsets are 0-based as in the  *)
(* code; the byte at offset i of the vector is buffer_[i + 1].             *)
(*                                                                         *)
(* size_t is modelled by the naturals: every length handed to an           *)
(* operation is one the allocator could serve, far below SIZE_MAX, so no   *)
(* sum of the code wraps; the differences the code takes are checked to    *)
(* be non-negative by the cursor invariant.                                *)
(***************************************************************************)
EXTENDS Integers, Sequences, FiniteSets, TLC

VARIABLES buffer_, readerIndex_, writerIndex_, aborted, lastCall, prevCall, calls,
          prepended

vars == <<buffer_, readerIndex_, writerIndex_, aborted, lastCall, prevCall, calls,
         prepended>>

\* static const size_t kCheapPrepend = 8;
kCheapPrepend == 8
\* static const size_t kInitialSize = 1024;
kInitialSize == 1024

(***************************************************************************)
(* Bounds of the model.                                                    *)
(***************************************************************************)
\* largest initialSize handed to the constructor (besides the default)
MaxInitialSize == 3
\* largest len handed to ensureWritableBytes/retrieve/hasWritten/unwrite/...
MaxLen == 3
\* number of calls made on the object after its construction
MaxCalls == 3

\* the byte strings handed to append and prepend
Payloads == {<<>>, <<1>>, <<2, 1>>, <<1, 2, 3>>}
\* the integers handed to appendInt8/16/32/64 (each fits its width)
Int8s == {-2}
Int16s == {-2, 258}
Int32s == {16909060}
Int64s == {-2}
\* the values the objects be16 and be32 named in prependInt16 and prependInt32
\* may hold (see prependInt32)
Be16s == {-2, 258}
Be32s == {0, 16909060}
\* the reserves handed to shrink
Reserves == {2}

(***************************************************************************)
(* std::vector<char> and the algorithms of <algorithm> the class uses.     *)
(***************************************************************************)
\* n value-initialized chars
Zeros(n) == [i \in 1..n |-> 0]

\* std::vector<char>::resize(n): truncate, or extend with zero bytes;
\* the bytes that stay keep offset and value
resize(buf, n) ==
    IF n <= Len(buf) THEN SubSeq(buf, 1, n) ELSE buf \o Zeros(n - Len(buf))

\* std::copy(d, d + len, begin() + at) from a range outside the vector:
\* the Len(data) bytes from offset at on are overwritten, the others stay
copy(buf, data, at) ==
    SubSeq(buf, 1, at) \o data \o SubSeq(buf, at + Len(data) + 1, Len(buf))

\* copyWithin with the loop ending one element early
RECURSIVE copyWithinShort(_, _, _, _)
copyWithinShort(buf, first, last, at) ==
    IF first + 1 >= last THEN buf
    ELSE copyWithinShort([buf EXCEPT ![at + 1] = buf[first + 1]], first + 1, last, at + 1)

\* std::copy(begin() + first, begin() + last, begin() + at) inside the vector:
\* a forward loop, one assignment per element, reading the vector as it is
RECURSIVE copyWithin(_, _, _, _)
copyWithin(buf, first, last, at) ==
    IF first >= last THEN buf
    ELSE copyWithin([buf EXCEPT ![at + 1] = buf[first + 1]], first + 1, last, at + 1)

\* std::string(p, len) with p = begin() + from
string(buf, from, len) == SubSeq(buf, from + 1, from + len)

(***************************************************************************)
(* Fixed-width integers in memory.  memcpy copies the object               *)
(* representation: two's complement, host byte order (least significant    *)
(* byte first, as on the x86 hosts the library is built for).  A byte of   *)
(* the vector is kept as its unsigned value 0..255.                        *)
(***************************************************************************)
\* the n bytes of the n-byte integer x
RECURSIVE toBytes(_, _)
toBytes(x, n) ==
    IF n = 0 THEN <<>> ELSE <<x % 256>> \o toBytes(x \div 256, n - 1)

\* fromBytes reading the bytes in network order (most significant first)
RECURSIVE fromBytesNetworkOrder(_)
fromBytesNetworkOrder(bytes) ==
    IF Len(bytes) = 1
    THEN IF bytes[1] >= 128 THEN bytes[1] - 256 ELSE bytes[1]
    ELSE bytes[Len(bytes)]
         + 256 * fromBytesNetworkOrder(SubSeq(bytes, 1, Len(bytes) - 1))

\* the signed integer whose object representation is bytes
RECURSIVE fromBytes(_)
fromBytes(bytes) ==
    IF Len(bytes) = 1
    THEN IF bytes[1] >= 128 THEN bytes[1] - 256 ELSE bytes[1]
    ELSE bytes[1] + 256 * fromBytes(Tail(bytes))

(***************************************************************************)
(* Buffer                                                                  *)
(***************************************************************************)
\* a failed assert(): the process aborts, the object stays as it is
abort(b) == [b EXCEPT !.aborted = TRUE]

readableBytes(b) == b.writerIndex_ - b.readerIndex_

writableBytes(b) == Len(b.buffer_) - b.writerIndex_

prependableBytes(b) == b.readerIndex_

\* peek(): begin() + readerIndex_, as an offset
peek(b) == b.readerIndex_

\* beginWrite(): begin() + writerIndex_, as an offset
beginWrite(b) == b.writerIndex_

\* the constructor sizing the vector without the cheap-prepend region
BufferNoPrepend(initialSize) ==
    LET b == [buffer_      |-> Zeros(initialSize),
              readerIndex_ |-> kCheapPrepend,
              writerIndex_ |-> kCheapPrepend,
              aborted      |-> FALSE]
    IN  IF /\ readableBytes(b) = 0
           /\ writableBytes(b) = initialSize
           /\ prependableBytes(b) = kCheapPrepend
        THEN b ELSE abort(b)

\* explicit Buffer(size_t initialSize = kInitialSize)
Buffer(initialSize) ==
    LET b == [buffer_      |-> Zeros(kCheapPrepend + initialSize),
              readerIndex_ |-> kCheapPrepend,
              writerIndex_ |-> kCheapPrepend,
              aborted      |-> FALSE]
    IN  IF /\ readableBytes(b) = 0
           /\ writableBytes(b) = initialSize
           /\ prependableBytes(b) = kCheapPrepend
        THEN b ELSE abort(b)

\* Buffer other; (the default argument)
defaultBuffer == Buffer(kInitialSize)

\* retrieveAll resetting both cursors to the start of the vector
retrieveAllToZero(b) == [b EXCEPT !.readerIndex_ = 0, !.writerIndex_ = 0]

\* retrieveAll resetting the reader's cursor only
retrieveAllKeepsWriter(b) == [b EXCEPT !.readerIndex_ = kCheapPrepend]

retrieveAll(b) ==
    [b EXCEPT !.readerIndex_ = kCheapPrepend, !.writerIndex_ = kCheapPrepend]

\* retrieve taking the bytes off the writer's end
retrieveFromEnd(b, len) ==
    IF ~(len <= readableBytes(b)) THEN abort(b)
    ELSE IF len < readableBytes(b)
         THEN [b EXCEPT !.writerIndex_ = b.writerIndex_ - len]
         ELSE retrieveAll(b)

\* retrieve without the reset of the cursors when everything is consumed
retrieveNoReset(b, len) ==
    IF ~(len <= readableBytes(b)) THEN abort(b)
    ELSE [b EXCEPT !.readerIndex_ = b.readerIndex_ + len]

retrieve(b, len) ==
    IF ~(len <= readableBytes(b)) THEN abort(b)
    ELSE IF len < readableBytes(b)
         THEN [b EXCEPT !.readerIndex_ = b.readerIndex_ + len]
         ELSE retrieveAll(b)

\* retrieveUntil(end): end is a pointer into the vector, held as an offset
retrieveUntil(b, end) ==
    IF ~(peek(b) <= end) THEN abort(b)
    ELSE IF ~(end <= beginWrite(b)) THEN abort(b)
    ELSE retrieve(b, end - peek(b))

hasWritten(b, len) ==
    IF ~(len <= writableBytes(b)) THEN abort(b)
    ELSE [b EXCEPT !.writerIndex_ = b.writerIndex_ + len]

\* unwrite retracting the reader's cursor instead of the writer's
unwriteReader(b, len) ==
    IF ~(len <= readableBytes(b)) THEN abort(b)
    ELSE [b EXCEPT !.readerIndex_ = b.readerIndex_ - len]

\* unwrite with hasWritten's assert (len <= writableBytes())
unwriteWrongAssert(b, len) ==
    IF ~(len <= writableBytes(b)) THEN abort(b)
    ELSE [b EXCEPT !.writerIndex_ = b.writerIndex_ - len]

unwrite(b, len) ==
    IF ~(len <= readableBytes(b)) THEN abort(b)
    ELSE [b EXCEPT !.writerIndex_ = b.writerIndex_ - len]

\* prepend copying to the old readerIndex_, over the content
prependOverContent(b, data) ==
    IF ~(Len(data) <= prependableBytes(b)) THEN abort(b)
    ELSE [b EXCEPT !.readerIndex_ = b.readerIndex_ - Len(data),
                   !.buffer_ = copy(b.buffer_, data, b.readerIndex_)]

\* prepend moving readerIndex_ before its assert is evaluated
prependAssertLate(b, data) ==
    IF ~(Len(data) <= prependableBytes(b))
    THEN abort([b EXCEPT !.readerIndex_ = b.readerIndex_ - Len(data)])
    ELSE LET r == b.readerIndex_ - Len(data)
         IN  [b EXCEPT !.readerIndex_ = r, !.buffer_ = copy(b.buffer_, data, r)]

prepend(b, data) ==
    IF ~(Len(data) <= prependableBytes(b)) THEN abort(b)
    ELSE LET r == b.readerIndex_ - Len(data)
         IN  [b EXCEPT !.readerIndex_ = r, !.buffer_ = copy(b.buffer_, data, r)]

\* makeSpace choosing its branch without the cheap-prepend reserve
makeSpaceNoReserve(b, len) ==
    IF writableBytes(b) + prependableBytes(b) < len
    THEN [b EXCEPT !.buffer_ = resize(b.buffer_, b.writerIndex_ + len)]
    ELSE IF ~(kCheapPrepend < b.readerIndex_) THEN abort(b)
    ELSE LET readable == readableBytes(b)
             moved == [b EXCEPT
                 !.buffer_ = copyWithin(b.buffer_, b.readerIndex_, b.writerIndex_,
                                        kCheapPrepend),
                 !.readerIndex_ = kCheapPrepend,
                 !.writerIndex_ = kCheapPrepend + readable]
         IN  IF readable = readableBytes(moved) THEN moved ELSE abort(moved)

\* makeSpace without the compacting branch
makeSpaceResizeOnly(b, len) ==
    [b EXCEPT !.buffer_ = resize(b.buffer_, b.writerIndex_ + len)]

makeSpace(b, len) ==
    IF writableBytes(b) + prependableBytes(b) < len + kCheapPrepend
    THEN [b EXCEPT !.buffer_ = resize(b.buffer_, b.writerIndex_ + len)]
    ELSE IF ~(kCheapPrepend < b.readerIndex_) THEN abort(b)
    ELSE LET readable == readableBytes(b)
             moved == [b EXCEPT
                 !.buffer_ = copyWithin(b.buffer_, b.readerIndex_, b.writerIndex_,
                                        kCheapPrepend),
                 !.readerIndex_ = kCheapPrepend,
                 !.writerIndex_ = kCheapPrepend + readable]
         IN  IF readable = readableBytes(moved) THEN moved ELSE abort(moved)

\* ensureWritableBytes calling makeSpace whatever the writable space
ensureWritableBytesAlways(b, len) ==
    LET b1 == makeSpace(b, len)
    IN  IF b1.aborted THEN b1
        ELSE IF writableBytes(b1) >= len THEN b1 ELSE abort(b1)

\* ensureWritableBytes calling makeSpace when the writable space just fits
ensureWritableBytesEager(b, len) ==
    LET b1 == IF writableBytes(b) <= len THEN makeSpace(b, len) ELSE b
    IN  IF b1.aborted THEN b1
        ELSE IF writableBytes(b1) >= len THEN b1 ELSE abort(b1)

ensureWritableBytes(b, len) ==
    LET b1 == IF writableBytes(b) < len THEN makeSpace(b, len) ELSE b
    IN  IF b1.aborted THEN b1
        ELSE IF writableBytes(b1) >= len THEN b1 ELSE abort(b1)

\* append copying to the write offset it had before ensureWritableBytes
appendStaleOffset(b, data) ==
    LET b1 == ensureWritableBytes(b, Len(data))
    IN  IF b1.aborted THEN b1
        ELSE hasWritten([b1 EXCEPT !.buffer_ = copy(b1.buffer_, data, beginWrite(b))],
                        Len(data))

append(b, data) ==
    LET b1 == ensureWritableBytes(b, Len(data))
    IN  IF b1.aborted THEN b1
        ELSE hasWritten([b1 EXCEPT !.buffer_ = copy(b1.buffer_, data, beginWrite(b1))],
                        Len(data))

appendInt64(b, x) == append(b, toBytes(x, 8))

appendInt32(b, x) == append(b, toBytes(x, 4))

appendInt16(b, x) == append(b, toBytes(x, 2))

appendInt8(b, x) == append(b, toBytes(x, 1))

\* prependInt32(x) and prependInt16(x) hand &be32, sizeof be32 and &be16,
\* sizeof be16 to prepend: objects the functions neither declare nor assign
\* from x.  Their value is whatever such an object holds; x is not used.
prependInt32(b, x, be32) == prepend(b, toBytes(be32, 4))

prependInt16(b, x, be16) == prepend(b, toBytes(be16, 2))

prependInt8(b, x) == prepend(b, toBytes(x, 1))

\* the value peekInt32/peekInt16/peekInt8 return (0 when the assert fails)
peekInt32(b) ==
    IF ~(readableBytes(b) >= 4) THEN 0
    ELSE fromBytes(string(b.buffer_, peek(b), 4))

peekInt16(b) ==
    IF ~(readableBytes(b) >= 2) THEN 0
    ELSE fromBytes(string(b.buffer_, peek(b), 2))

peekInt8(b) ==
    IF ~(readableBytes(b) >= 1) THEN 0
    ELSE fromBytes(string(b.buffer_, peek(b), 1))

\* the object after peekInt32/16/8: untouched, aborted when the assert fails
peekIntN(b, width) ==
    IF ~(readableBytes(b) >= width) THEN abort(b) ELSE b

retrieveInt64(b) == retrieve(b, 8)

retrieveInt32(b) == retrieve(b, 4)

retrieveInt16(b) == retrieve(b, 2)

retrieveInt8(b) == retrieve(b, 1)

\* retrieveAsString building its string from begin() instead of peek()
retrieveAsStringFromBegin(b, len) ==
    IF ~(len <= readableBytes(b)) THEN <<>> ELSE string(b.buffer_, 0, len)

\* the string retrieveAsString returns (empty when the assert fails)
retrieveAsStringResult(b, len) ==
    IF ~(len <= readableBytes(b)) THEN <<>> ELSE string(b.buffer_, peek(b), len)

\* the object after retrieveAsString
retrieveAsString(b, len) ==
    IF ~(len <= readableBytes(b)) THEN abort(b) ELSE retrieve(b, len)

retrieveAllAsString(b) == retrieveAsString(b, readableBytes(b))

\* swap exchanging the vectors only
swapVectorOnly(b, rhs) == [b EXCEPT !.buffer_ = rhs.buffer_]

\* swap(rhs), seen from this object: it takes rhs's vector and cursors
swap(b, rhs) ==
    [b EXCEPT !.buffer_ = rhs.buffer_,
              !.readerIndex_ = rhs.readerIndex_,
              !.writerIndex_ = rhs.writerIndex_]

\* the second argument of other.append(peek(),) in shrink, which the source
\* leaves out: the current readable content is copied, so its length
shrinkAppendLen(b) == readableBytes(b)

shrink(b, reserve) ==
    LET other0 == defaultBuffer
        other1 == ensureWritableBytes(other0, readableBytes(b) + reserve)
        other2 == IF other1.aborted THEN other1
                  ELSE append(other1, string(b.buffer_, peek(b), shrinkAppendLen(b)))
    IN  IF other2.aborted THEN abort(b) ELSE swap(b, other2)

(***************************************************************************)
(* The object of the model and the record of the last call made on it.     *)
(***************************************************************************)
Self == [buffer_      |-> buffer_,
         readerIndex_ |-> readerIndex_,
         writerIndex_ |-> writerIndex_,
         aborted      |-> aborted]

\* what is kept of a call once the next one is made: its name and, for the
\* calls that add readable bytes, its arguments, the value it returned, the
\* number of readable bytes and the cursors it found
Summary(c) ==
    IF c.name \in {"append", "appendInt8", "appendInt16", "appendInt32", "hasWritten"}
    THEN [name |-> c.name, len |-> c.len, data |-> c.data, int |-> c.int,
          readable |-> c.pre.writerIndex_ - c.pre.readerIndex_,
          readerIndex_ |-> c.pre.readerIndex_, writerIndex_ |-> c.pre.writerIndex_]
    ELSE [name |-> c.name, len |-> 0, data |-> <<>>, int |-> 0,
          readable |-> 0, readerIndex_ |-> 0, writerIndex_ |-> 0]

\* the calls that write in front of the readable bytes
PrependCalls == {"prepend", "prependInt8", "prependInt16", "prependInt32"}

\* the object becomes b; the call, its arguments, the object before it and
\* the value it returned are recorded, and so is the call made before it
Call(name, len, data, b, str, int) ==
    /\ calls < MaxCalls
    /\ calls' = calls + 1
    /\ buffer_' = b.buffer_
    /\ readerIndex_' = b.readerIndex_
    /\ writerIndex_' = b.writerIndex_
    /\ aborted' = b.aborted
    /\ prevCall' = Summary(lastCall)
    /\ prepended' = (prepended \/ name \in PrependCalls)
    /\ lastCall' = [name |-> name, len |-> len, data |-> data, pre |-> Self,
                    str |-> str, int |-> int]

Init ==
    /\ calls = 0
    /\ \E initialSize \in 0..MaxInitialSize :
          LET b == Buffer(initialSize)
          IN  /\ buffer_ = b.buffer_
              /\ readerIndex_ = b.readerIndex_
              /\ writerIndex_ = b.writerIndex_
              /\ aborted = b.aborted
              /\ lastCall = [name |-> "Buffer", len |-> initialSize, data |-> <<>>,
                             pre |-> b, str |-> <<>>, int |-> 0]
    /\ prevCall = Summary(lastCall)
    /\ prepended = FALSE

DoEnsureWritableBytes ==
    /\ ~aborted
    /\ \E len \in 0..MaxLen :
          Call("ensureWritableBytes", len, <<>>, ensureWritableBytes(Self, len), <<>>, 0)

DoAppend ==
    /\ ~aborted
    /\ \E data \in Payloads :
          Call("append", Len(data), data, append(Self, data), <<>>, 0)

DoPrepend ==
    /\ ~aborted
    /\ \E data \in Payloads :
          Call("prepend", Len(data), data, prepend(Self, data), <<>>, 0)

DoRetrieve ==
    /\ ~aborted
    /\ \E len \in 0..MaxLen :
          Call("retrieve", len, <<>>, retrieve(Self, len), <<>>, 0)

\* the distances end - peek() of the pointers handed to retrieveUntil: one
\* below peek(), one inside the content, one that can pass beginWrite()
EndDistances == {-1, 2, MaxLen + 1}

\* lastCall.int is the pointer end, lastCall.len the distance end - peek()
DoRetrieveUntil ==
    /\ ~aborted
    /\ \E d \in EndDistances :
          LET end == peek(Self) + d
          IN  Call("retrieveUntil", end - peek(Self), <<>>, retrieveUntil(Self, end),
                   <<>>, end)

DoRetrieveAll ==
    /\ ~aborted
    /\ Call("retrieveAll", 0, <<>>, retrieveAll(Self), <<>>, 0)

DoHasWritten ==
    /\ ~aborted
    /\ \E len \in 0..MaxLen :
          Call("hasWritten", len, <<>>, hasWritten(Self, len), <<>>, 0)

DoUnwrite ==
    /\ ~aborted
    /\ \E len \in 0..MaxLen :
          Call("unwrite", len, <<>>, unwrite(Self, len), <<>>, 0)

DoRetrieveAsString ==
    /\ ~aborted
    /\ \E len \in 0..MaxLen :
          Call("retrieveAsString", len, <<>>, retrieveAsString(Self, len),
               retrieveAsStringResult(Self, len), 0)

DoRetrieveAllAsString ==
    /\ ~aborted
    /\ Call("retrieveAllAsString", readableBytes(Self), <<>>, retrieveAllAsString(Self),
            retrieveAsStringResult(Self, readableBytes(Self)), 0)

DoAppendInt ==
    /\ ~aborted
    /\ \/ \E x \in Int8s : Call("appendInt8", 1, <<>>, appendInt8(Self, x), <<>>, x)
       \/ \E x \in Int16s : Call("appendInt16", 2, <<>>, appendInt16(Self, x), <<>>, x)
       \/ \E x \in Int32s : Call("appendInt32", 4, <<>>, appendInt32(Self, x), <<>>, x)
       \/ \E x \in Int64s : Call("appendInt64", 8, <<>>, appendInt64(Self, x), <<>>, x)

DoPeekInt ==
    /\ ~aborted
    /\ \/ Call("peekInt8", 1, <<>>, peekIntN(Self, 1), <<>>, peekInt8(Self))
       \/ Call("peekInt16", 2, <<>>, peekIntN(Self, 2), <<>>, peekInt16(Self))
       \/ Call("peekInt32", 4, <<>>, peekIntN(Self, 4), <<>>, peekInt32(Self))

DoRetrieveInt ==
    /\ ~aborted
    /\ \/ Call("retrieveInt8", 1, <<>>, retrieveInt8(Self), <<>>, 0)
       \/ Call("retrieveInt16", 2, <<>>, retrieveInt16(Self), <<>>, 0)
       \/ Call("retrieveInt32", 4, <<>>, retrieveInt32(Self), <<>>, 0)
       \/ Call("retrieveInt64", 8, <<>>, retrieveInt64(Self), <<>>, 0)

DoPrependInt ==
    /\ ~aborted
    /\ \/ \E x \in Int8s : Call("prependInt8", 1, <<>>, prependInt8(Self, x), <<>>, x)
       \/ \E x \in {258} : \E be16 \in Be16s :
             Call("prependInt16", 2, <<>>, prependInt16(Self, x, be16), <<>>, x)
       \/ \E x \in Int32s : \E be32 \in Be32s :
             Call("prependInt32", 4, <<>>, prependInt32(Self, x, be32), <<>>, x)

\* the buffers handed to swap: built by the class's own operations
Others == {Buffer(0), retrieve(append(Buffer(3), <<1, 2, 3>>), 2)}

DoSwap ==
    /\ ~aborted
    /\ \E rhs \in Others : Call("swap", 0, <<>>, swap(Self, rhs), <<>>, 0)

DoShrink ==
    /\ ~aborted
    /\ \E reserve \in Reserves :
          Call("shrink", reserve, <<>>, shrink(Self, reserve), <<>>, 0)

Next ==
    \/ DoEnsureWritableBytes
    \/ DoAppend
    \/ DoPrepend
    \/ DoRetrieve
    \/ DoRetrieveUntil
    \/ DoRetrieveAll
    \/ DoRetrieveAsString
    \/ DoRetrieveAllAsString
    \/ DoHasWritten
    \/ DoUnwrite
    \/ DoAppendInt
    \/ DoPeekInt
    \/ DoRetrieveInt
    \/ DoPrependInt
    \/ DoSwap
    \/ DoShrink

Spec == Init /\ [][Next]_vars

(***************************************************************************)
(* The properties of the class.  pre is the object as the last call found  *)
(* it; Readable(b) is the readable content of b, the bytes from peek() to  *)
(* beginWrite() in order.                                                  *)
(***************************************************************************)
pre == lastCall.pre

Readable(b) == SubSeq(b.buffer_, b.readerIndex_ + 1, b.writerIndex_)

\* the last call made makeSpace move the readable bytes to the front
Compacted ==
    /\ writableBytes(pre) < lastCall.len
    /\ writableBytes(pre) + prependableBytes(pre) >= lastCall.len + kCheapPrepend

\* the last call made makeSpace resize the vector
Grown ==
    /\ writableBytes(pre) < lastCall.len
    /\ writableBytes(pre) + prependableBytes(pre) < lastCall.len + kCheapPrepend

\* C1: after the constructor and after every call of every operation, made
\* with its precondition satisfied, 0 <= readerIndex <= writerIndex <=
\* storage length (a call whose assert fails leaves the object as it was).
C1_CursorInvariant ==
    /\ 0 <= readerIndex_
    /\ readerIndex_ <= writerIndex_
    /\ writerIndex_ <= Len(buffer_)

\* C1's case: an append that compacted a buffer whose reader cursor had
\* moved, after which the cursors are back at the front of the content zone
C1_Witness ==
    /\ lastCall.name = "append"
    /\ ~aborted
    /\ Compacted
    /\ readerIndex_ = kCheapPrepend
    /\ writerIndex_ > readerIndex_
    /\ writerIndex_ <= Len(buffer_)

\* C2: ensureWritableBytes(n) always returns (neither the assert at its end
\* nor the one in makeSpace fails), and writableBytes() >= n afterwards,
\* whether makeSpace resized, compacted or was not called.
C2_EnsureGivesRoom ==
    lastCall.name = "ensureWritableBytes" =>
        /\ ~aborted
        /\ writableBytes(Self) >= lastCall.len

\* C2's case: ensureWritableBytes took the compacting branch of makeSpace
C2_Witness ==
    /\ lastCall.name = "ensureWritableBytes"
    /\ Compacted
    /\ ~aborted
    /\ Len(buffer_) = Len(pre.buffer_)
    /\ writableBytes(Self) >= lastCall.len

\* C3: ensureWritableBytes(n) leaves the readable content as it was: the
\* same bytes at the same positions counted from peek().  When makeSpace
\* resizes or is not called the cursors and the offsets in the vector stay
\* too; when it compacts, the content starts at kCheapPrepend.
C3_EnsureKeepsContent ==
    lastCall.name = "ensureWritableBytes" /\ ~aborted =>
        /\ Readable(Self) = Readable(pre)
        /\ ~Compacted => /\ readerIndex_ = pre.readerIndex_
                         /\ writerIndex_ = pre.writerIndex_
        /\ Compacted => readerIndex_ = kCheapPrepend

\* C3's case: a compaction that moved at least two different bytes
C3_Witness ==
    /\ lastCall.name = "ensureWritableBytes"
    /\ Compacted
    /\ ~aborted
    /\ readableBytes(pre) >= 2
    /\ Readable(pre)[1] # Readable(pre)[2]
    /\ Readable(Self) = Readable(pre)

\* C4: append(data, len) on readable content C always returns, the readable
\* content is then C followed by data and readableBytes() is len larger,
\* whether the storage was resized, compacted or large enough.
C4_AppendAddsAtEnd ==
    lastCall.name = "append" =>
        /\ ~aborted
        /\ Readable(Self) = Readable(pre) \o lastCall.data
        /\ readableBytes(Self) = readableBytes(pre) + lastCall.len

\* C4's case: an append of several bytes to non-empty content that compacted
C4_Witness ==
    /\ lastCall.name = "append"
    /\ Compacted
    /\ lastCall.len >= 2
    /\ readableBytes(pre) >= 1
    /\ Readable(Self) = Readable(pre) \o lastCall.data

\* the last two calls were append(b) and then retrieveAsString(len(b))
AppendThenRetrieveAsString ==
    /\ prevCall.name = "append"
    /\ lastCall.name = "retrieveAsString"
    /\ lastCall.len = prevCall.len

\* C5 as stated: append(b) followed by retrieveAsString(len(b)) returns b,
\* whatever the buffer held before the append.
C5_RoundTripAnyContent ==
    AppendThenRetrieveAsString => ~aborted /\ lastCall.str = prevCall.data

\* C5 amended: on a buffer with no readable bytes, append(b) followed by
\* retrieveAsString(len(b)) returns b.
C5_RoundTripFromEmpty ==
    AppendThenRetrieveAsString /\ prevCall.readable = 0 =>
        ~aborted /\ lastCall.str = prevCall.data

\* C5's case: several bytes appended to an empty buffer and read back
C5_Witness ==
    /\ AppendThenRetrieveAsString
    /\ prevCall.readable = 0
    /\ prevCall.len >= 2
    /\ lastCall.str = prevCall.data

\* C6: prepend(h, k) with k <= prependableBytes() on readable content C gives
\* readable content h followed by C; readerIndex moves back by k, writerIndex
\* and the storage length stay, and every byte from the old readerIndex on is
\* unchanged.
C6_PrependAddsInFront ==
    lastCall.name = "prepend" /\ lastCall.len <= prependableBytes(pre) =>
        /\ ~aborted
        /\ Readable(Self) = lastCall.data \o Readable(pre)
        /\ readerIndex_ = pre.readerIndex_ - lastCall.len
        /\ writerIndex_ = pre.writerIndex_
        /\ Len(buffer_) = Len(pre.buffer_)
        /\ \A i \in (pre.readerIndex_ + 1)..Len(buffer_) : buffer_[i] = pre.buffer_[i]

\* C6's case: a header of several bytes prepended to non-empty content
C6_Witness ==
    /\ lastCall.name = "prepend"
    /\ ~aborted
    /\ lastCall.len >= 2
    /\ readableBytes(pre) >= 1
    /\ Readable(Self) = lastCall.data \o Readable(pre)

RetrieveCalls ==
    {"retrieve", "retrieveUntil", "retrieveInt8", "retrieveInt16", "retrieveInt32",
     "retrieveInt64"}

\* C7: retrieve(len) with len <= readableBytes(), retrieveInt8/16/32/64
\* with len = 1/2/4/8, and retrieveUntil(end) with peek() <= end <=
\* beginWrite() and len = end - peek(), makes readableBytes() len smaller
\* and leaves as readable content the old content without its first len
\* bytes.
C7_RetrieveDropsFront ==
    /\ lastCall.name \in RetrieveCalls
    /\ lastCall.len <= readableBytes(pre)
    /\ lastCall.name = "retrieveUntil" => peek(pre) <= lastCall.int
    =>  /\ ~aborted
        /\ readableBytes(Self) = readableBytes(pre) - lastCall.len
        /\ Readable(Self) = SubSeq(Readable(pre), lastCall.len + 1, readableBytes(pre))

\* C7's case: retrieveInt16 on content longer than two bytes
C7_Witness ==
    /\ lastCall.name = "retrieveInt16"
    /\ ~aborted
    /\ readableBytes(pre) > 2
    /\ readableBytes(Self) = readableBytes(pre) - 2
    /\ Readable(Self) # <<>>

\* C8: retrieve(len) with len < readableBytes() moves readerIndex forward by
\* len and leaves writerIndex and the storage alone; with len =
\* readableBytes() it sets both cursors to kCheapPrepend, as retrieveAll
\* does, and leaves the storage alone.
C8_RetrieveCursors ==
    lastCall.name = "retrieve" /\ lastCall.len <= readableBytes(pre) =>
        /\ ~aborted
        /\ buffer_ = pre.buffer_
        /\ lastCall.len < readableBytes(pre) =>
              /\ readerIndex_ = pre.readerIndex_ + lastCall.len
              /\ writerIndex_ = pre.writerIndex_
        /\ lastCall.len = readableBytes(pre) =>
              /\ readerIndex_ = kCheapPrepend
              /\ writerIndex_ = kCheapPrepend
              /\ Self = retrieveAll(pre)

\* C8's case: retrieve of all the readable bytes of a buffer whose cursors
\* were both away from kCheapPrepend
C8_Witness ==
    /\ lastCall.name = "retrieve"
    /\ ~aborted
    /\ lastCall.len = readableBytes(pre)
    /\ lastCall.len > 0
    /\ pre.readerIndex_ # kCheapPrepend
    /\ readerIndex_ = kCheapPrepend
    /\ writerIndex_ = kCheapPrepend

\* the last two calls were appendIntN(x) and then peekIntN(), N = 8, 16, 32
AppendIntThenPeekInt ==
    \/ prevCall.name = "appendInt8" /\ lastCall.name = "peekInt8"
    \/ prevCall.name = "appendInt16" /\ lastCall.name = "peekInt16"
    \/ prevCall.name = "appendInt32" /\ lastCall.name = "peekInt32"

\* C9 as stated: appendIntN(x) followed by peekIntN() returns x, whatever
\* the buffer held before the append (the class has no peekInt64).
C9_IntRoundTripAnyContent ==
    AppendIntThenPeekInt => ~aborted /\ lastCall.int = prevCall.int

\* C9 amended: on a buffer with no readable bytes, appendIntN(x) followed by
\* peekIntN() returns x, for N = 8, 16 and 32.
C9_IntRoundTripFromEmpty ==
    AppendIntThenPeekInt /\ prevCall.readable = 0 =>
        ~aborted /\ lastCall.int = prevCall.int

\* C9's case: a negative 16-bit and a 32-bit integer whose bytes all differ,
\* appended to an empty buffer and peeked
C9_Witness ==
    /\ AppendIntThenPeekInt
    /\ prevCall.readable = 0
    /\ \/ lastCall.name = "peekInt32" /\ lastCall.int = 16909060
       \/ lastCall.name = "peekInt16" /\ lastCall.int = -2

\* the precondition of the last call did not hold when it was made
PreconditionViolated ==
    \/ /\ lastCall.name \in {"peekInt8", "peekInt16", "peekInt32"}
       /\ readableBytes(pre) < lastCall.len
    \/ /\ lastCall.name \in RetrieveCalls \cup {"retrieveAsString", "unwrite"}
       /\ lastCall.len > readableBytes(pre)
    \/ /\ lastCall.name = "retrieveUntil"
       /\ lastCall.int < peek(pre)
    \/ /\ lastCall.name = "prepend"
       /\ lastCall.len > prependableBytes(pre)
    \/ /\ lastCall.name = "hasWritten"
       /\ lastCall.len > writableBytes(pre)

\* C10: a call made with its precondition violated ends in a failed assert,
\* and readerIndex, writerIndex and the storage are then as they were before
\* the call.
C10_ViolationAbortsUnchanged ==
    PreconditionViolated =>
        /\ aborted
        /\ readerIndex_ = pre.readerIndex_
        /\ writerIndex_ = pre.writerIndex_
        /\ buffer_ = pre.buffer_

\* C10's case: a prepend of more bytes than are prependable, on a buffer
\* that holds content
C10_Witness ==
    /\ lastCall.name = "prepend"
    /\ lastCall.len > prependableBytes(pre)
    /\ readableBytes(pre) > 0
    /\ aborted

\* C11: hasWritten(n) with n <= writableBytes() followed by unwrite(n): the
\* unwrite does not abort, writerIndex and readableBytes() are what they
\* were before the hasWritten, and readerIndex and the storage are unchanged
\* (neither call touches them).
C11_HasWrittenUnwrite ==
    /\ lastCall.name = "hasWritten" /\ lastCall.len <= writableBytes(pre) =>
          /\ ~aborted
          /\ readerIndex_ = pre.readerIndex_
          /\ buffer_ = pre.buffer_
    /\ /\ prevCall.name = "hasWritten"
       /\ lastCall.name = "unwrite"
       /\ lastCall.len = prevCall.len
       => /\ ~aborted
          /\ writerIndex_ = prevCall.writerIndex_
          /\ readableBytes(Self) = prevCall.readable
          /\ readerIndex_ = prevCall.readerIndex_
          /\ buffer_ = pre.buffer_

\* C11's case: several bytes committed and retracted on a buffer that holds
\* content
C11_Witness ==
    /\ prevCall.name = "hasWritten"
    /\ lastCall.name = "unwrite"
    /\ lastCall.len = prevCall.len
    /\ lastCall.len >= 2
    /\ prevCall.readable >= 1
    /\ ~aborted
    /\ writerIndex_ = prevCall.writerIndex_

\* C12: a newly constructed Buffer(s), for the sizes s of the model and for
\* the default size kInitialSize, has passed its three asserts and has
\* readableBytes() = 0, writableBytes() = s, prependableBytes() =
\* kCheapPrepend and both cursors at kCheapPrepend.
C12_Constructed ==
    /\ lastCall.name = "Buffer" =>
          /\ ~aborted
          /\ readableBytes(Self) = 0
          /\ writableBytes(Self) = lastCall.len
          /\ prependableBytes(Self) = kCheapPrepend
          /\ readerIndex_ = kCheapPrepend
          /\ writerIndex_ = kCheapPrepend
    /\ lastCall.name = "shrink" =>
          /\ ~defaultBuffer.aborted
          /\ readableBytes(defaultBuffer) = 0
          /\ writableBytes(defaultBuffer) = kInitialSize
          /\ prependableBytes(defaultBuffer) = kCheapPrepend
          /\ defaultBuffer.readerIndex_ = kCheapPrepend
          /\ defaultBuffer.writerIndex_ = kCheapPrepend

\* C12's case: a buffer just constructed with a non-zero initial size
C12_Witness ==
    /\ lastCall.name = "Buffer"
    /\ calls = 0
    /\ lastCall.len >= 2
    /\ writableBytes(Self) = lastCall.len
    /\ Len(buffer_) = kCheapPrepend + lastCall.len

\* C13: retrieveAll() leaves readableBytes() = 0, both cursors at
\* kCheapPrepend and the storage length as it was; an append(b) made next
\* leaves the cursors, the readable content and the storage length that the
\* same append leaves on a buffer freshly constructed with that storage
\* length.
C13_RetrieveAllThenAppend ==
    /\ lastCall.name = "retrieveAll" =>
          /\ ~aborted
          /\ readableBytes(Self) = 0
          /\ readerIndex_ = kCheapPrepend
          /\ writerIndex_ = kCheapPrepend
          /\ Len(buffer_) = Len(pre.buffer_)
    /\ prevCall.name = "retrieveAll" /\ lastCall.name = "append" =>
          LET fresh == append(Buffer(Len(pre.buffer_) - kCheapPrepend), lastCall.data)
          IN  /\ ~aborted
              /\ readerIndex_ = fresh.readerIndex_
              /\ writerIndex_ = fresh.writerIndex_
              /\ Readable(Self) = Readable(fresh)
              /\ Len(buffer_) = Len(fresh.buffer_)

\* C13's case: an append after a retrieveAll that found both cursors away
\* from kCheapPrepend, on storage that still holds the earlier bytes
C13_Witness ==
    /\ prevCall.name = "retrieveAll"
    /\ lastCall.name = "append"
    /\ lastCall.len >= 2
    /\ pre.buffer_ # Zeros(Len(pre.buffer_))
    /\ ~aborted
    /\ Readable(Self) = lastCall.data

\* C14 as stated: after shrink(reserve) the storage holds the cheap-prepend
\* region plus exactly readableBytes() + reserve bytes, so writableBytes()
\* = reserve.
C14_ShrinkFitsExactly ==
    lastCall.name = "shrink" =>
        /\ ~aborted
        /\ Len(buffer_) = kCheapPrepend + readableBytes(pre) + lastCall.len
        /\ writableBytes(Self) = lastCall.len

\* C15: shrink(reserve) keeps the readable content, bytes and count, and
\* leaves readerIndex at kCheapPrepend.
C15_ShrinkKeepsContent ==
    lastCall.name = "shrink" =>
        /\ ~aborted
        /\ Readable(Self) = Readable(pre)
        /\ readableBytes(Self) = readableBytes(pre)
        /\ readerIndex_ = kCheapPrepend

\* C15's case: shrink of a buffer that holds several different bytes and
\* whose reader cursor is away from kCheapPrepend
C15_Witness ==
    /\ lastCall.name = "shrink"
    /\ ~aborted
    /\ pre.readerIndex_ # kCheapPrepend
    /\ readableBytes(pre) >= 2
    /\ Readable(pre)[1] # Readable(pre)[2]
    /\ Readable(Self) = Readable(pre)

\* C16: append(data, len) and ensureWritableBytes(len) leave the storage
\* length alone when writableBytes() + prependableBytes() >= len +
\* kCheapPrepend before the call; the storage length never decreases, and it
\* increases only when writableBytes() < len and writableBytes() +
\* prependableBytes() < len + kCheapPrepend.
C16_GrowsOnlyWhenNeeded ==
    lastCall.name \in {"append", "ensureWritableBytes"} =>
        /\ ~aborted
        /\ writableBytes(pre) + prependableBytes(pre) >= lastCall.len + kCheapPrepend
              => Len(buffer_) = Len(pre.buffer_)
        /\ Len(buffer_) >= Len(pre.buffer_)
        /\ Len(buffer_) > Len(pre.buffer_) => Grown

\* C16's case: an append right after a retrieve, for which the writable
\* bytes alone were too few and the storage length stayed
C16_Witness ==
    /\ prevCall.name = "retrieve"
    /\ lastCall.name = "append"
    /\ ~aborted
    /\ writableBytes(pre) < lastCall.len
    /\ Len(buffer_) = Len(pre.buffer_)
    /\ readableBytes(Self) = readableBytes(pre) + lastCall.len

\* the value peekInt8/16/32 returns on the object after prependInt8/16/32
PeekAfterPrependInt ==
    IF lastCall.name = "prependInt8" THEN peekInt8(Self)
    ELSE IF lastCall.name = "prependInt16" THEN peekInt16(Self)
    ELSE peekInt32(Self)

\* C17 as stated: prependInt8/16/32(x) with prependableBytes() >= width on
\* readable content C makes readableBytes() larger by the width, peekIntN()
\* return x, and the bytes after the first width bytes be C.
C17_PrependIntInsertsX ==
    /\ lastCall.name \in {"prependInt8", "prependInt16", "prependInt32"}
    /\ lastCall.len <= prependableBytes(pre)
    => /\ ~aborted
       /\ readableBytes(Self) = readableBytes(pre) + lastCall.len
       /\ PeekAfterPrependInt = lastCall.int
       /\ SubSeq(Readable(Self), lastCall.len + 1, readableBytes(Self)) = Readable(pre)

\* C18: ensureWritableBytes(len) called with writableBytes() >= len leaves
\* readerIndex, writerIndex, the storage length and every storage byte as
\* they were (makeSpace, which would change one of them or abort, is not
\* invoked).
C18_EnsureEnoughRoomNoChange ==
    lastCall.name = "ensureWritableBytes" /\ writableBytes(pre) >= lastCall.len =>
        /\ ~aborted
        /\ readerIndex_ = pre.readerIndex_
        /\ writerIndex_ = pre.writerIndex_
        /\ Len(buffer_) = Len(pre.buffer_)
        /\ buffer_ = pre.buffer_

\* C18's case: ensureWritableBytes for exactly the writable bytes there are,
\* on a buffer with content and freed space in front of it
C18_Witness ==
    /\ lastCall.name = "ensureWritableBytes"
    /\ lastCall.len >= 1
    /\ writableBytes(pre) = lastCall.len
    /\ readableBytes(pre) >= 1
    /\ pre.readerIndex_ > kCheapPrepend
    /\ ~aborted
    /\ buffer_ = pre.buffer_

\* the calls that reach makeSpace through ensureWritableBytes
GrowthCalls ==
    {"ensureWritableBytes", "append", "appendInt8", "appendInt16", "appendInt32",
     "appendInt64"}

\* C19: the assertion kCheapPrepend < readerIndex_ of makeSpace's compaction
\* branch never fails: whenever a call reaches that branch (writableBytes()
\* < len and writableBytes() + prependableBytes() >= len + kCheapPrepend),
\* readerIndex was above kCheapPrepend, also after earlier prepend calls,
\* and the call does not abort.
C19_CompactionAssertHolds ==
    lastCall.name \in GrowthCalls =>
        /\ Compacted => kCheapPrepend < pre.readerIndex_
        /\ ~aborted

\* C19's case: a compaction after a prepend, with readerIndex at the least
\* value the assertion lets pass
C19_Witness ==
    /\ prevCall.name = "prepend"
    /\ lastCall.name = "append"
    /\ lastCall.len >= 1
    /\ Compacted
    /\ pre.readerIndex_ = kCheapPrepend + 1
    /\ ~aborted
    /\ readerIndex_ = kCheapPrepend

\* C20: in every state reached without a prepend or prependIntN call
\* prependableBytes() >= kCheapPrepend, and right after a compaction by
\* makeSpace prependableBytes() = kCheapPrepend.
C20_CheapPrependKept ==
    /\ ~prepended => prependableBytes(Self) >= kCheapPrepend
    /\ lastCall.name \in GrowthCalls /\ Compacted /\ ~aborted
          => prependableBytes(Self) = kCheapPrepend

\* C20's case: no prepend so far, and an ensureWritableBytes that compacted
\* a buffer whose content sat above the reserve
C20_Witness ==
    /\ ~prepended
    /\ lastCall.name = "ensureWritableBytes"
    /\ Compacted
    /\ readableBytes(pre) >= 1
    /\ pre.readerIndex_ > kCheapPrepend
    /\ ~aborted
    /\ prependableBytes(Self) = kCheapPrepend

====
